---- MODULE Spec2Model ----
(***************************************************************************)
(* A model of app.py: the text normaliser clean_text, the transcript       *)
(* extractor, the two generators, the PDF exporter and the Streamlit       *)
(* script main that chains them.                                           *)
(*                                                                         *)
(* Text is a sequence of Unicode code points (naturals), so that the       *)
(* regular expressions of clean_text act on what they act on in Python:    *)
(* "*" is 42, "\n" is 10, and a character is non-ASCII when its code point *)
(* is above 127.                                                           *)
(***************************************************************************)
EXTENDS Naturals, Sequences, FiniteSets, TLC

VARIABLES
    text,       \* clean_text: the argument of the first application
    once,       \* clean_text(text)
    twice,      \* clean_text(clean_text(text))
    stage,      \* "input", "once", "twice": how often clean_text was applied
    span,       \* the parts the argument was built from: [pre, w, post]
    via,        \* the function that applied clean_text to the argument
    pc,               \* main: "idle" between script runs, else the next step
    subject,          \* main: the value of the selectbox
    youtube_link,     \* main: the value of the text input
    transcript_text,  \* main: local, <<>> while unassigned
    detailed_notes,   \* main: local, <<>> while unassigned
    aptitude_questions, \* main: local, <<>> while unassigned
    pdf_filename,     \* main: local, <<>> while unassigned
    display,          \* the elements the page shows
    fault,            \* the step whose exception ended the script run, or "none"
    calls,            \* the functions and services invoked in this script run
    caption,          \* what the caption service answered in this script run
    fs,               \* the files of the working directory: name -> content
    exported          \* per subject, the document of its latest successful export

cleanVars == <<text, once, twice, stage, span, via>>

mainVars == <<pc, subject, youtube_link, transcript_text, detailed_notes,
              aptitude_questions, pdf_filename, display, fault, calls,
              caption, fs, exported>>

vars == <<cleanVars, mainVars>>

----------------------------------------------------------------------------
(* Characters *)

Star == 42          \* "*", the character of r"\*\*"
Newline == 10       \* "\n"
AsciiMax == 127     \* \x7F, the upper end of [^\x00-\x7F]

(* Bounds of the strings clean_text is applied to *)
MaxLen == 6         \* longest argument of clean_text in SpecClean
MaxPre == 1         \* longest text before a wrapped span in SpecSpan
MaxSpan == 2        \* longest wrapped text in SpecSpan
MaxPost == 1        \* longest text after a wrapped span in SpecSpan

\* the characters of the arguments: "*", "\n", "a", "b" and "é" (U+00E9)
Alphabet == {Star, Newline, 97, 98, 233}

Strings(n) == UNION {[1..k -> Alphabet] : k \in 0..n}

----------------------------------------------------------------------------
(* clean_text, app.py lines 13-18 *)

\* s[i], s[i+1] are "**"
StarsAt(s, i) == i + 1 <= Len(s) /\ s[i] = Star /\ s[i + 1] = Star

\* "." of the pattern: any character except a newline (no re.DOTALL)
Dot(c) == c # Newline

\* The positions j at which the closing "**" of r"\*\*(.*?)\*\*" can stand
\* when the opening "**" is at i: the group s[i+2..j-1] is all dots.
Closers(s, i) ==
    {j \in (i + 2)..Len(s) :
        /\ StarsAt(s, j)
        /\ \A k \in (i + 2)..(j - 1) : Dot(s[k])}

Min(S) == CHOOSE m \in S : \A n \in S : m <= n
Max(S) == CHOOSE m \in S : \A n \in S : n <= m

\* (.*?) is lazy: the match ends at the first closing "**"
Closer(s, i) == Min(Closers(s, i))

\* re.sub(r"\*\*(.*?)\*\*", r"\1", text), scanning from position i: the
\* leftmost match is replaced by its group and the scan resumes behind it
RECURSIVE SubBold(_, _)
SubBold(s, i) ==
    IF i > Len(s) THEN <<>>
    ELSE IF StarsAt(s, i) /\ Closers(s, i) # {}
    THEN SubSeq(s, i + 2, Closer(s, i) - 1) \o SubBold(s, Closer(s, i) + 2)
    ELSE <<s[i]>> \o SubBold(s, i + 1)

RemoveBold(s) == SubBold(s, 1)

\* [^\x00-\x7F]
NonAscii(c) == c > AsciiMax

\* re.sub(r"[^\x00-\x7F]+", "", text)
RemoveNonAscii(s) == SelectSeq(s, LAMBDA c : ~NonAscii(c))

\* re.sub(r"\n{2,}", "\n", text): of every run of newlines the first is kept
RECURSIVE SubNewlines(_, _)
SubNewlines(s, i) ==
    IF i > Len(s) THEN <<>>
    ELSE IF s[i] = Newline /\ i > 1 /\ s[i - 1] = Newline
    THEN SubNewlines(s, i + 1)
    ELSE <<s[i]>> \o SubNewlines(s, i + 1)

CollapseNewlines(s) == SubNewlines(s, 1)

\* the three substitutions in a different order: newlines first
clean_text_newlines_first(s) == RemoveNonAscii(RemoveBold(CollapseNewlines(s)))

\* the non-ASCII substitution left out
clean_text_keeps_non_ascii(s) == CollapseNewlines(RemoveBold(s))

\* the bold substitution left out
clean_text_keeps_bold(s) == CollapseNewlines(RemoveNonAscii(s))

clean_text(s) == CollapseNewlines(RemoveNonAscii(RemoveBold(s)))

----------------------------------------------------------------------------
(* What a call gives its caller *)

Return(v) == [kind |-> "return", value |-> v]
Raise == [kind |-> "raise"]

(* The answers of the language-model service: a completion, or an error *)
LlmText(t) == [kind |-> "return", text |-> t]
LlmError == [kind |-> "raise"]

\* generate_notes: model.generate_content(prompt + transcript_text), then
\* clean_text(response.text); an error of the service is not caught
generate_notes(transcript, subj, answer) ==
    IF answer.kind = "raise" THEN Raise ELSE Return(clean_text(answer.text))

\* generate_aptitude_questions: the prompt holds the subject only
generate_aptitude_questions(subj, answer) ==
    IF answer.kind = "raise" THEN Raise ELSE Return(clean_text(answer.text))

----------------------------------------------------------------------------
(* extract_transcript, app.py lines 61-69 *)

\* "Error"
ErrorWord == <<69, 114, 114, 111, 114>>

\* "Error fetching transcript: "
ErrorPrefix ==
    <<69, 114, 114, 111, 114, 32, 102, 101, 116, 99, 104, 105, 110, 103, 32,
      116, 114, 97, 110, 115, 99, 114, 105, 112, 116, 58, 32>>

\* "v="
IdMarker == <<118, 61>>

\* " "
Space == <<32>>

\* str(KeyError("text"))
KeyErrorText == <<39, 116, 101, 120, 116, 39>>

\* needle stands in s at position i
OccursAt(s, needle, i) ==
    /\ i + Len(needle) - 1 <= Len(s)
    /\ \A k \in 1..Len(needle) : s[i + k - 1] = needle[k]

\* Python's  needle in s
Contains(s, needle) == \E i \in 1..(Len(s) + 1) : OccursAt(s, needle, i)

\* youtube_url.split("v=")[-1]: what follows the last "v=", or the whole
\* string when it holds no "v="
VideoId(url) ==
    LET at == {i \in 1..Len(url) : OccursAt(url, IdMarker, i)}
    IN  IF at = {} THEN url
        ELSE SubSeq(url, Max(at) + Len(IdMarker), Len(url))

\* sep.join(parts)
RECURSIVE Join(_, _)
Join(parts, sep) ==
    IF parts = <<>> THEN <<>>
    ELSE IF Len(parts) = 1 THEN parts[1]
    ELSE parts[1] \o sep \o Join(Tail(parts), sep)

\* extract_transcript without its try/except: the error reaches the caller
extract_transcript_no_except(youtube_url, answer) ==
    IF answer.kind = "raise" THEN Raise
    ELSE IF \E k \in 1..Len(answer.entries) : "text" \notin DOMAIN answer.entries[k]
    THEN Raise
    ELSE Return(Join([k \in 1..Len(answer.entries) |-> answer.entries[k].text],
                     Space))

\* answer is what YouTubeTranscriptApi.get_transcript(video_id) does: it
\* raises with a message, or returns the caption entries
extract_transcript(youtube_url, answer) ==
    IF answer.kind = "raise"
    THEN Return(ErrorPrefix \o answer.msg)
    ELSE IF \E k \in 1..Len(answer.entries) : "text" \notin DOMAIN answer.entries[k]
    THEN Return(ErrorPrefix \o KeyErrorText)
    ELSE Return(Join([k \in 1..Len(answer.entries) |-> answer.entries[k].text],
                     Space))

----------------------------------------------------------------------------
(* save_as_pdf, app.py lines 71-113 *)

\* s.split("\n"), scanning from position i with the line so far in acc
RECURSIVE SplitFrom(_, _, _)
SplitFrom(s, i, acc) ==
    IF i > Len(s) THEN <<acc>>
    ELSE IF s[i] = Newline THEN <<acc>> \o SplitFrom(s, i + 1, <<>>)
    ELSE SplitFrom(s, i + 1, Append(acc, s[i]))

SplitLines(s) == SplitFrom(s, 1, <<>>)

\* the ASCII characters str.strip() removes
IsSpace(c) == c \in (9..13) \cup (28..32)

\* line.strip() is non-empty
NotBlank(line) == \E k \in 1..Len(line) : ~IsSpace(line[k])

\* line.startswith("-") or line.startswith("*") or line.startswith("•")
IsBullet(line) == Len(line) > 0 /\ line[1] \in {45, Star, 8226}

\* re.match(r"^\d+\.", line)
IsNumbered(line) ==
    \E n \in 1..Len(line) :
        /\ n + 1 <= Len(line)
        /\ \A k \in 1..n : line[k] \in 48..57
        /\ line[n + 1] = 46

\* the notes body: a multi_cell per non-blank line, behind a cell(10) indent
\* when the line starts with a bullet marker
NotesBody(notes) ==
    LET lines == SelectSeq(SplitLines(notes), NotBlank)
    IN  [k \in 1..Len(lines) |-> [indent |-> IsBullet(lines[k]), line |-> lines[k]]]

\* the questions body: a multi_cell per non-blank line, behind an ln(3) gap
\* when the line starts with a number and a period
QuestionsBody(questions) ==
    LET lines == SelectSeq(SplitLines(questions), NotBlank)
    IN  [k \in 1..Len(lines) |-> [gap |-> IsNumbered(lines[k]), line |-> lines[k]]]

\* what the FPDF object holds when pdf.output is called
Document(notes, questions, subj) ==
    [title |-> "Study Notes on " \o subj,
     heading1 |-> "Detailed Notes",
     notes |-> NotesBody(notes),
     heading2 |-> "Placement Aptitude Questions",
     questions |-> QuestionsBody(questions)]

\* a file that open(name, "wb") created or emptied and that was not written
EmptyFile == [torn |-> TRUE]

\* a file name that does not name the subject
FixedName(subj) == "study_notes.pdf"

\* f"{subject}_study_notes.pdf"
PdfName(subj) == subj \o "_study_notes.pdf"

\* the files after name was written with content
WriteFile(files, name, content) ==
    [n \in DOMAIN files \cup {name} |-> IF n = name THEN content ELSE files[n]]

\* save_as_pdf with the error of pdf.output swallowed: it returns the name
\* whether or not the file was written
save_as_pdf_swallow(notes, questions, subj, files, outcome) ==
    LET name == PdfName(subj)
    IN  IF outcome = "written"
        THEN [kind |-> "return", value |-> name,
              files |-> WriteFile(files, name, Document(notes, questions, subj))]
        ELSE IF outcome = "write_failed"
        THEN [kind |-> "return", value |-> name,
              files |-> WriteFile(files, name, EmptyFile)]
        ELSE [kind |-> "return", value |-> name, files |-> files]

\* outcome is what pdf.output(pdf_filename, "F") does: "written", or an
\* OSError from open ("open_failed", the files as they were) or from the
\* write behind it ("write_failed", the file emptied by open)
save_as_pdf(notes, questions, subj, files, outcome) ==
    LET name == PdfName(subj)
    IN  IF outcome = "written"
        THEN [kind |-> "return", value |-> name,
              files |-> WriteFile(files, name, Document(notes, questions, subj))]
        ELSE IF outcome = "write_failed"
        THEN [kind |-> "raise", files |-> WriteFile(files, name, EmptyFile)]
        ELSE [kind |-> "raise", files |-> files]

PdfOutcomes == {"written", "open_failed", "write_failed"}

----------------------------------------------------------------------------
(* The inputs of main: what the user enters and what the services answer *)

\* the options of st.selectbox, in their order
SubjectOptions ==
    <<"Database Management Systems (DBMS)",
      "Operating Systems (OS)",
      "Object-Oriented Programming (OOPS)",
      "Computer Networks (CN)">>

NumSubjects == 2    \* how many of the options the user selects among

Subjects == {SubjectOptions[k] : k \in 1..Min({NumSubjects, Len(SubjectOptions)})}

\* "", "abc" (no "v="), "watch?v=abc", "a?v=x&v=abc" (two "v=")
Links ==
    {<<>>,
     <<97, 98, 99>>,
     <<119, 97, 116, 99, 104, 63, 118, 61, 97, 98, 99>>,
     <<97, 63, 118, 61, 120, 38, 118, 61, 97, 98, 99>>}

Hello == <<72, 101, 108, 108, 111>>
World == <<119, 111, 114, 108, 100>>

Entry(t) == [text |-> t, start |-> 0]

\* get_transcript raises (with an empty message, with "no captions"), or
\* returns entries: none, "Hello" "world", "Hello" "Error", "Error", and an
\* entry without a text field
CaptionAnswers ==
    {[kind |-> "raise", msg |-> <<>>],
     [kind |-> "raise", msg |-> <<110, 111, 32, 99, 97, 112, 116, 105, 111, 110, 115>>],
     [kind |-> "return", entries |-> <<>>],
     [kind |-> "return", entries |-> <<Entry(Hello), Entry(World)>>],
     [kind |-> "return", entries |-> <<Entry(Hello), Entry(ErrorWord)>>],
     [kind |-> "return", entries |-> <<Entry(ErrorWord)>>],
     [kind |-> "return", entries |-> <<Entry(Hello), [start |-> 0]>>]}

\* completions for the notes prompt: "**a**\n\n- b" and "é*a"
NotesAnswers ==
    {LlmError,
     LlmText(<<42, 42, 97, 42, 42, 10, 10, 45, 32, 98>>),
     LlmText(<<233, 42, 97>>)}

\* completions for the questions prompt: "1. a\n \n2. b" and "**b**"
QuestionsAnswers ==
    {LlmError,
     LlmText(<<49, 46, 32, 97, 10, 32, 10, 50, 46, 32, 98>>),
     LlmText(<<42, 42, 98, 42, 42>>)}

----------------------------------------------------------------------------
(* main, app.py lines 115-161 *)

\* the page after lines 117-132: the form, and the thumbnail of the video
\* when a link is entered
Page(link) ==
    [thumbnail |-> IF link # <<>> THEN <<VideoId(link)>> ELSE <<>>,
     success |-> FALSE,
     errors |-> 0,
     notes |-> <<>>,
     questions |-> <<>>,
     download |-> <<>>,
     exception |-> FALSE]

\* only the emptiness of the transcript is tested
TranscriptNotEmpty(t) == Len(t) > 0

\* transcript_text and "Error" not in transcript_text
TranscriptOk(t) == Len(t) > 0 /\ ~Contains(t, ErrorWord)

\* an exception swallowed: the script goes on with the step behind
GoOn(next) == next

\* an exception no one catches ends the script run
AfterFault(next) == "idle"

\* every script run starts with no locals, no calls and no fault
FreshRun ==
    /\ transcript_text' = <<>>
    /\ detailed_notes' = <<>>
    /\ aptitude_questions' = <<>>
    /\ pdf_filename' = <<>>
    /\ fault' = "none"
    /\ calls' = <<>>
    /\ caption' = <<>>

InitMain ==
    /\ pc = "idle"
    /\ subject = SubjectOptions[1]
    /\ youtube_link = <<>>
    /\ transcript_text = <<>>
    /\ detailed_notes = <<>>
    /\ aptitude_questions = <<>>
    /\ pdf_filename = <<>>
    /\ display = Page(<<>>)
    /\ fault = "none"
    /\ calls = <<>>
    /\ caption = <<>>
    /\ fs = <<>>
    /\ exported = [s \in Subjects |-> <<>>]

\* the user picks another subject: the script reruns, the button is not pressed
SelectSubject ==
    /\ pc = "idle"
    /\ \E s \in Subjects \ {subject} : subject' = s
    /\ display' = Page(youtube_link)
    /\ FreshRun
    /\ UNCHANGED cleanVars
    /\ UNCHANGED <<pc, youtube_link, fs, exported>>

\* the user enters another link: the script reruns, the button is not pressed
EnterLink ==
    /\ pc = "idle"
    /\ \E u \in Links \ {youtube_link} :
          /\ youtube_link' = u
          /\ display' = Page(u)
    /\ FreshRun
    /\ UNCHANGED cleanVars
    /\ UNCHANGED <<pc, subject, fs, exported>>

\* the user clicks the download control: the file is served and the script
\* reruns, the button is not pressed
ClickDownload ==
    /\ pc = "idle"
    /\ display.download # <<>>
    /\ display' = Page(youtube_link)
    /\ FreshRun
    /\ UNCHANGED cleanVars
    /\ UNCHANGED <<pc, subject, youtube_link, fs, exported>>

\* line 134: the user presses the button, the script reruns and enters the if
PressButton ==
    /\ pc = "idle"
    /\ pc' = "extract"
    /\ display' = Page(youtube_link)
    /\ FreshRun
    /\ UNCHANGED cleanVars
    /\ UNCHANGED <<subject, youtube_link, fs, exported>>

\* line 135
ExtractStep ==
    /\ pc = "extract"
    /\ \E answer \in CaptionAnswers :
          LET r == extract_transcript(youtube_link, answer)
          IN  /\ caption' = <<[video_id |-> VideoId(youtube_link), answer |-> answer]>>
              /\ IF r.kind = "return"
                 THEN /\ transcript_text' = <<r.value>>
                      /\ pc' = "check"
                      /\ UNCHANGED <<fault, display>>
                 ELSE /\ fault' = "extract_transcript"
                      /\ display' = [display EXCEPT !.exception = TRUE]
                      /\ pc' = AfterFault("check")
                      /\ UNCHANGED transcript_text
    /\ calls' = calls \o <<"extract_transcript", "get_transcript">>
    /\ UNCHANGED cleanVars
    /\ UNCHANGED <<subject, youtube_link, detailed_notes, aptitude_questions,
                   pdf_filename, fs, exported>>

\* lines 137-138 and 160-161
CheckStep ==
    /\ pc = "check"
    /\ IF TranscriptOk(transcript_text[1])
       THEN /\ display' = [display EXCEPT !.success = TRUE]
            /\ pc' = "notes"
       ELSE /\ display' = [display EXCEPT !.errors = @ + 1]
            /\ pc' = "idle"
    /\ UNCHANGED cleanVars
    /\ UNCHANGED <<subject, youtube_link, transcript_text, detailed_notes,
                   aptitude_questions, pdf_filename, fault, calls, caption,
                   fs, exported>>

\* lines 141-143
NotesStep ==
    /\ pc = "notes"
    /\ \E answer \in NotesAnswers :
          LET r == generate_notes(transcript_text[1], subject, answer)
          IN  IF r.kind = "return"
              THEN /\ detailed_notes' = <<r.value>>
                   /\ display' = [display EXCEPT !.notes = <<r.value>>]
                   /\ pc' = "questions"
                   /\ UNCHANGED fault
              ELSE /\ fault' = "generate_notes"
                   /\ display' = [display EXCEPT !.exception = TRUE]
                   /\ pc' = AfterFault("questions")
                   /\ UNCHANGED detailed_notes
    /\ calls' = calls \o <<"generate_notes", "generate_content">>
    /\ UNCHANGED cleanVars
    /\ UNCHANGED <<subject, youtube_link, transcript_text, aptitude_questions,
                   pdf_filename, caption, fs, exported>>

\* lines 146-148
QuestionsStep ==
    /\ pc = "questions"
    /\ \E answer \in QuestionsAnswers :
          LET r == generate_aptitude_questions(subject, answer)
          IN  IF r.kind = "return"
              THEN /\ aptitude_questions' = <<r.value>>
                   /\ display' = [display EXCEPT !.questions = <<r.value>>]
                   /\ pc' = "save"
                   /\ UNCHANGED fault
              ELSE /\ fault' = "generate_aptitude_questions"
                   /\ display' = [display EXCEPT !.exception = TRUE]
                   /\ pc' = AfterFault("save")
                   /\ UNCHANGED aptitude_questions
    /\ calls' = calls \o <<"generate_aptitude_questions", "generate_content">>
    /\ UNCHANGED cleanVars
    /\ UNCHANGED <<subject, youtube_link, transcript_text, detailed_notes,
                   pdf_filename, caption, fs, exported>>

\* line 151
SaveStep ==
    /\ pc = "save"
    /\ \E outcome \in PdfOutcomes :
          LET r == save_as_pdf(detailed_notes[1], aptitude_questions[1], subject,
                               fs, outcome)
          IN  /\ fs' = r.files
              /\ IF r.kind = "return"
                 THEN /\ pdf_filename' = <<r.value>>
                      /\ exported' = [exported EXCEPT ![subject] =
                             <<Document(detailed_notes[1], aptitude_questions[1],
                                        subject)>>]
                      /\ pc' = "download"
                      /\ UNCHANGED <<fault, display>>
                 ELSE /\ fault' = "save_as_pdf"
                      /\ display' = [display EXCEPT !.exception = TRUE]
                      /\ pc' = AfterFault("download")
                      /\ UNCHANGED <<pdf_filename, exported>>
    /\ calls' = calls \o <<"save_as_pdf">>
    /\ UNCHANGED cleanVars
    /\ UNCHANGED <<subject, youtube_link, transcript_text, detailed_notes,
                   aptitude_questions, caption>>

\* lines 152-158: the file is opened and handed to st.download_button; open
\* raises when no file has the name
DownloadStep ==
    /\ pc = "download"
    /\ IF pdf_filename # <<>> /\ pdf_filename[1] \in DOMAIN fs
       THEN /\ display' = [display EXCEPT !.download =
                   <<[file_name |-> pdf_filename[1],
                      data |-> fs[pdf_filename[1]],
                      mime |-> "application/pdf"]>>]
            /\ UNCHANGED fault
       ELSE /\ display' = [display EXCEPT !.exception = TRUE]
            /\ fault' = "open"
    /\ pc' = "idle"
    /\ UNCHANGED cleanVars
    /\ UNCHANGED <<subject, youtube_link, transcript_text, detailed_notes,
                   aptitude_questions, pdf_filename, calls, caption,
                   fs, exported>>

NextMain ==
    \/ SelectSubject
    \/ EnterLink
    \/ ClickDownload
    \/ PressButton
    \/ ExtractStep
    \/ CheckStep
    \/ NotesStep
    \/ QuestionsStep
    \/ SaveStep
    \/ DownloadStep

----------------------------------------------------------------------------
(* Applying clean_text once and twice to a bounded argument *)

NoSpan == [pre |-> <<>>, w |-> <<>>, post |-> <<>>]

Marker == <<Star, Star>>

\* the text with the span wrapped in emphasis markers
Wrap(sp) == sp.pre \o Marker \o sp.w \o Marker \o sp.post

\* the same text without the two markers
Unwrap(sp) == sp.pre \o sp.w \o sp.post

Callers == {"clean_text", "generate_notes", "generate_aptitude_questions"}

\* what the caller named by via returns when the language model (or, for
\* clean_text itself, the caller) supplies t
Apply(caller, t) ==
    IF caller = "generate_notes"
    THEN generate_notes(Hello, SubjectOptions[1], LlmText(t)).value
    ELSE IF caller = "generate_aptitude_questions"
    THEN generate_aptitude_questions(SubjectOptions[1], LlmText(t)).value
    ELSE clean_text(t)

InitClean ==
    /\ text \in Strings(MaxLen)
    /\ via \in Callers
    /\ span = NoSpan
    /\ once = <<>>
    /\ twice = <<>>
    /\ stage = "input"

InitSpan ==
    /\ span \in [pre : Strings(MaxPre), w : Strings(MaxSpan), post : Strings(MaxPost)]
    /\ via = "clean_text"
    /\ text = Wrap(span)
    /\ once = <<>>
    /\ twice = <<>>
    /\ stage = "input"

CleanOnce ==
    /\ stage = "input"
    /\ once' = Apply(via, text)
    /\ stage' = "once"
    /\ UNCHANGED <<text, twice, span, via>>
    /\ UNCHANGED mainVars

CleanTwice ==
    /\ stage = "once"
    /\ twice' = clean_text(once)
    /\ stage' = "twice"
    /\ UNCHANGED <<text, once, span, via>>
    /\ UNCHANGED mainVars

NextClean == CleanOnce \/ CleanTwice

----------------------------------------------------------------------------
(* Specifications *)

\* main: the script runs of one browser session
Init ==
    /\ InitMain
    /\ text = <<>> /\ once = <<>> /\ twice = <<>>
    /\ stage = "unused" /\ span = NoSpan /\ via = "clean_text"

Next == NextMain

Spec == Init /\ [][Next]_vars

\* clean_text and the generators on every string up to MaxLen
InitCleanAll == InitClean /\ InitMain

SpecClean == InitCleanAll /\ [][NextClean]_vars

\* clean_text on every text that holds a wrapped span
InitSpanAll == InitSpan /\ InitMain

SpecSpan == InitSpanAll /\ [][NextClean]_vars

----------------------------------------------------------------------------
(* What the properties below read off a state *)

\* the four steps of a run, in the order of main
Steps == <<"extract_transcript", "generate_notes", "generate_aptitude_questions",
           "save_as_pdf">>

StepNames == {Steps[k] : k \in 1..Len(Steps)}

\* the steps invoked so far in this script run, in order
StepCalls == SelectSeq(calls, LAMBDA c : c \in StepNames)

Invoked(f) == \E k \in 1..Len(calls) : calls[k] = f

Count(f) == Cardinality({k \in 1..Len(calls) : calls[k] = f})

IsPrefix(p, s) == Len(p) <= Len(s) /\ SubSeq(s, 1, Len(p)) = p

\* a script run that pressed the button has come to its end
RunEnded == pc = "idle" /\ calls # <<>>

\* extract_transcript returned a non-empty text without the substring "Error"
GoodTranscript ==
    /\ transcript_text # <<>>
    /\ transcript_text[1] # <<>>
    /\ ~Contains(transcript_text[1], ErrorWord)

\* the caption service returned entries that all have a text
FetchSucceeded ==
    /\ caption # <<>>
    /\ caption[1].answer.kind = "return"
    /\ \A k \in 1..Len(caption[1].answer.entries) :
          "text" \in DOMAIN caption[1].answer.entries[k]

LaterSteps == {"generate_notes", "generate_aptitude_questions", "save_as_pdf"}

----------------------------------------------------------------------------
(* C1: in main the steps behind extract_transcript run exactly when the    *)
(* returned text is non-empty and holds no substring "Error": none of them *)
(* is invoked otherwise, and then exactly one failure message is shown and *)
(* nothing else; with such a text generate_notes is invoked, and all three *)
(* are invoked when none of them raises.                                   *)
C1_ExtractionGate ==
    /\ (\E f \in LaterSteps : Invoked(f)) => GoodTranscript
    /\ RunEnded => (Invoked("generate_notes") <=> GoodTranscript)
    /\ (RunEnded /\ GoodTranscript /\ fault = "none") =>
          /\ \A f \in LaterSteps : Invoked(f)
          /\ display.errors = 0
    /\ (RunEnded /\ ~GoodTranscript) =>
          /\ \A f \in LaterSteps : ~Invoked(f)
          /\ display.errors = 1
          /\ ~display.exception
          /\ ~display.success

\* a run ended on the failure message although the caption fetch succeeded:
\* the transcript holds the word "Error"
C1_Witness ==
    /\ RunEnded
    /\ FetchSucceeded
    /\ transcript_text # <<>>
    /\ Contains(transcript_text[1], ErrorWord)
    /\ display.errors = 1
    /\ ~Invoked("generate_notes")

----------------------------------------------------------------------------
(* C2: extract_transcript never raises to main: when the caption service   *)
(* raises, or an entry has no text, it returns "Error fetching transcript: "*)
(* followed by the message, and when the fetch succeeds it returns the     *)
(* texts of the entries in their order, joined by single spaces. This      *)
(* holds for every link, also for one without "v=".                        *)
C2_ExtractorReturns ==
    caption # <<>> =>
        /\ fault # "extract_transcript"
        /\ transcript_text # <<>>
        /\ LET a == caption[1].answer
               t == transcript_text[1]
           IN  IF a.kind = "raise"
               THEN t = ErrorPrefix \o a.msg
               ELSE IF ~FetchSucceeded
               THEN IsPrefix(ErrorPrefix, t)
               ELSE /\ t = Join([k \in 1..Len(a.entries) |-> a.entries[k].text], Space)
                    /\ Len(a.entries) = 2 =>
                          t = a.entries[1].text \o <<32>> \o a.entries[2].text

\* a link without "v=": the whole link is the video id, the service raised,
\* and main holds an error-marked text
C2_Witness ==
    /\ caption # <<>>
    /\ youtube_link # <<>>
    /\ ~Contains(youtube_link, IdMarker)
    /\ caption[1].video_id = youtube_link
    /\ caption[1].answer.kind = "raise"
    /\ transcript_text # <<>>
    /\ IsPrefix(ErrorPrefix, transcript_text[1])
    /\ pc = "check"

----------------------------------------------------------------------------
(* C3: clean_text is idempotent: applying it to its own result changes     *)
(* nothing, for every string of asterisks, newlines, letters and non-ASCII *)
(* characters.                                                             *)
C3_Idempotent == stage = "twice" => twice = once

----------------------------------------------------------------------------
\* no character of s is an asterisk
NoStar(s) == \A k \in 1..Len(s) : s[k] # Star

\* every character of s is ASCII and is neither an asterisk nor a newline
Plain(s) == \A k \in 1..Len(s) : ~NonAscii(s[k]) /\ s[k] # Star /\ s[k] # Newline

\* the result is that of the text without the two markers, and it holds the
\* wrapped text character for character
SpanUnwrapped ==
    /\ once = clean_text(Unwrap(span))
    /\ Contains(once, span.w)

----------------------------------------------------------------------------
\* s holds two newlines in a row
NewlineRun(s) == \E k \in 1..(Len(s) - 1) : s[k] = Newline /\ s[k + 1] = Newline

(* C5: the result of clean_text holds no two newlines in a row, whatever   *)
(* the argument: also when the newlines of the argument are separated by   *)
(* non-ASCII characters or by emphasis markers that clean_text removes.    *)
C5_NoNewlineRun == stage # "input" => ~NewlineRun(once)

\* "\né\n\n\n" became "\n": three newlines in a row, and one more that the
\* removal of "é" put next to them
C5_Witness ==
    /\ stage = "once"
    /\ text = <<Newline, 233, Newline, Newline, Newline>>
    /\ once = <<Newline>>

----------------------------------------------------------------------------
\* the characters of s that are ASCII and neither asterisk nor newline
Ordinary(s) == SelectSeq(s, LAMBDA c : ~NonAscii(c) /\ c # Star /\ c # Newline)

CountOf(s, c) == Cardinality({k \in 1..Len(s) : s[k] = c})

\* p can be had from s by deleting characters
RECURSIVE IsSubsequence(_, _)
IsSubsequence(p, s) ==
    IF p = <<>> THEN TRUE
    ELSE IF s = <<>> THEN FALSE
    ELSE IF p[1] = s[1] THEN IsSubsequence(Tail(p), Tail(s))
    ELSE IsSubsequence(p, Tail(s))

(* C6: whatever text the language model returns, what generate_notes and   *)
(* generate_aptitude_questions return holds no character above code point  *)
(* 127, and it keeps the ASCII characters of the model's text in their     *)
(* order, except asterisks of removed markers (four per removed pair) and  *)
(* newlines of collapsed runs.                                             *)
C6_GeneratorsAsciiOnly ==
    (stage # "input" /\ via \in {"generate_notes", "generate_aptitude_questions"}) =>
        /\ \A k \in 1..Len(once) : once[k] <= 127
        /\ Ordinary(once) = Ordinary(text)
        /\ IsSubsequence(once, SelectSeq(text, LAMBDA c : c <= 127))
        /\ (CountOf(text, Star) - CountOf(once, Star)) % 4 = 0
        /\ (CountOf(text, Newline) > 0) => (CountOf(once, Newline) > 0)

\* generate_notes returned "b*a\n" for the model's "éb*a\n"
C6_Witness ==
    /\ stage = "once"
    /\ via = "generate_notes"
    /\ text = <<233, 98, Star, 97, Newline>>
    /\ once = <<98, Star, 97, Newline>>

----------------------------------------------------------------------------
\* the file name the exporter is to use for a subject
ExpectedName(subj) == subj \o "_study_notes.pdf"

(* C7: save_as_pdf writes to and returns the subject followed by           *)
(* "_study_notes.pdf", whatever the notes and questions are; so the        *)
(* working directory holds at most one exported file per subject, named    *)
(* after it, and a file that a failed write has not emptied holds the      *)
(* document of the latest successful export of its subject.                *)
C7_OneFilePerSubject ==
    /\ pdf_filename # <<>> =>
          /\ PdfName("DBMS") = "DBMS_study_notes.pdf"
          /\ pdf_filename[1] = ExpectedName(subject)
          /\ pdf_filename[1] \in DOMAIN fs
          /\ fs[pdf_filename[1]] =
                Document(detailed_notes[1], aptitude_questions[1], subject)
    /\ DOMAIN fs \subseteq {ExpectedName(s) : s \in Subjects}
    /\ Cardinality(DOMAIN fs) <= Cardinality(Subjects)
    /\ \A s \in Subjects :
          exported[s] # <<>> =>
              /\ ExpectedName(s) \in DOMAIN fs
              /\ fs[ExpectedName(s)] # EmptyFile =>
                    fs[ExpectedName(s)] = exported[s][1]

\* an export has just returned, every subject has its own file, and the
\* two files hold different notes: runs with different model answers
C7_Witness ==
    /\ pc = "download"
    /\ pdf_filename = <<ExpectedName(subject)>>
    /\ \A s \in Subjects : ExpectedName(s) \in DOMAIN fs /\ exported[s] # <<>>
    /\ Cardinality(DOMAIN fs) = Cardinality(Subjects)
    /\ \E s \in Subjects \ {subject} :
          /\ fs[ExpectedName(s)] # EmptyFile
          /\ fs[ExpectedName(s)].notes # fs[pdf_filename[1]].notes

----------------------------------------------------------------------------
(* C8: the download control is shown only in a script run that succeeded:  *)
(* extraction gave a good transcript, all four steps were invoked and      *)
(* none raised, the notes and questions are rendered, and the control      *)
(* serves the file save_as_pdf wrote, under its name and with its content. *)
(* No state with a failure message or an exception shows the control.      *)
C8_DownloadOnlyAfterSuccess ==
    /\ display.download # <<>> =>
          /\ fault = "none"
          /\ display.errors = 0
          /\ ~display.exception
          /\ display.success
          /\ GoodTranscript
          /\ StepCalls = Steps
          /\ detailed_notes # <<>> /\ display.notes = detailed_notes
          /\ aptitude_questions # <<>> /\ display.questions = aptitude_questions
          /\ LET d == display.download[1]
             IN  /\ d.file_name = ExpectedName(subject)
                 /\ d.file_name \in DOMAIN fs
                 /\ d.data = fs[d.file_name]
                 /\ d.data = Document(detailed_notes[1], aptitude_questions[1], subject)
                 /\ d.mime = "application/pdf"
    /\ (fault # "none" \/ display.errors > 0 \/ display.exception) =>
          display.download = <<>>

\* the control is shown
C8_Witness ==
    /\ pc = "idle"
    /\ display.download # <<>>
    /\ display.download[1].data = fs[ExpectedName(subject)]

----------------------------------------------------------------------------
(* C9: in one script run the steps are invoked in the order                *)
(* extract_transcript, generate_notes, generate_aptitude_questions,        *)
(* save_as_pdf, each at most once, the caption service at most once and    *)
(* the language model at most twice; a step is invoked only after the one  *)
(* before it returned without failure, and a step that raises is the last  *)
(* one of its run.                                                         *)
C9_StepsInOrder ==
    /\ IsPrefix(StepCalls, Steps)
    /\ Count("get_transcript") <= 1
    /\ Count("generate_content") <= 2
    /\ Invoked("generate_notes") => GoodTranscript
    /\ Invoked("generate_aptitude_questions") => detailed_notes # <<>>
    /\ Invoked("save_as_pdf") => aptitude_questions # <<>>
    /\ fault # "none" =>
          /\ pc = "idle"
          /\ StepCalls # <<>>
          /\ StepCalls[Len(StepCalls)] = fault
    /\ display.errors > 0 => StepCalls = <<"extract_transcript">>

\* question generation raised: the run ended, save_as_pdf was not invoked
C9_Witness ==
    /\ fault = "generate_aptitude_questions"
    /\ pc = "idle"
    /\ StepCalls = SubSeq(Steps, 1, 3)
    /\ Count("generate_content") = 2

----------------------------------------------------------------------------
(* C10: a run in which a step fails delivers nothing of its output: the    *)
(* notes and the questions are not rendered, and no file is exported or    *)
(* offered for download.                                                   *)
C10_NoPartialResults ==
    (fault # "none" \/ display.errors > 0) =>
        /\ display.notes = <<>>
        /\ display.questions = <<>>
        /\ display.download = <<>>
        /\ pdf_filename = <<>>

====
